---------------------------- MODULE Spec2Model ----------------------------
(***************************************************************************)
(* A model of parsons.utilities.dbt: the sequential command runner         *)
(* (dbt.py) and the result wrapper Manifest with its derived views         *)
(* (models.py).                                                            *)
(*                                                                         *)
(* Python values are records with a field t naming their type, so that     *)
(* values of different types can be told apart.  A Python str that the     *)
(* code inspects (a command) is a sequence of one-character strings; a     *)
(* literal the code only passes along (a flag, a path) is one symbol.      *)
(***************************************************************************)
EXTENDS Integers, Sequences, FiniteSets, TLC

VARIABLES
    commands,               \* dbtRunnerParsons.commands
    dbt_project_directory,  \* dbtRunnerParsons.dbt_project_directory
    dbt_profile_directory,  \* dbtRunnerParsons.dbt_profile_directory
    pc,                     \* position of the call: "run", "done", "returned", "raised", or a view position
    idx,                    \* position of run()'s for loop in commands (1-based)
    results,                \* run()'s local list of wrappers
    invoked,                \* the calls dbtRunner.invoke has received, in order
    raised,                 \* the exception that left the call, or None
    man,                    \* the Manifest under inspection, or None
    view,                   \* the last value computed on man: [op, args, out]
    loggers,                \* run_dbt_commands' loggers argument
    notified                \* the calls made on the loggers, in order

vars == <<commands, dbt_project_directory, dbt_profile_directory, pc, idx,
          results, invoked, raised, man, view, loggers, notified>>

-----------------------------------------------------------------------------
(* Bounds of the model *)

MaxCommands == 2    \* longest command list of a batch
MaxCmdLen == 5      \* longest command string whose tokenisation is enumerated
MaxResults == 2     \* most outcomes in one result set
MaxLoggers == 2     \* longest list of loggers

-----------------------------------------------------------------------------
(* Python values *)

None == [t |-> "None"]
IsNone(x) == x.t = "None"

PyStr(s) == [t |-> "str", v |-> s]
PyInt(n) == [t |-> "int", v |-> n]
Path(p) == [t |-> "Path", v |-> <<p>>]

Digits == <<"0", "1", "2", "3", "4", "5", "6", "7", "8", "9">>

RECURSIVE IntStr(_)
IntStr(n) == IF n < 10 THEN Digits[n + 1]
             ELSE IntStr(n \div 10) \o Digits[(n % 10) + 1]

\* str(x): the text of a value
str(x) == CASE x.t = "str" -> x.v
            [] x.t = "int" -> IntStr(x.v)
            [] x.t = "None" -> "None"
            [] x.t = "Path" -> x.v

\* x == y between the values filter_results meets: a str never equals an int
PyEq(x, y) == x.t = y.t /\ (x.t = "None" \/ x.v = y.v)

-----------------------------------------------------------------------------
(* Strings the code looks into: sequences of characters *)

DbtMarker == <<"d", "b", "t", " ">>

startswith(s, prefix) ==
    Len(s) >= Len(prefix) /\ SubSeq(s, 1, Len(prefix)) = prefix

\* command[4:] when command starts with "dbt "
StripMarker(command) ==
    IF startswith(command, DbtMarker)
    THEN SubSeq(command, Len(DbtMarker) + 1, Len(command))
    ELSE command

\* s.split(" "): cut at every single space; empty pieces are kept
RECURSIVE split(_)
split(s) ==
    IF \A k \in 1..Len(s) : s[k] # " "
    THEN <<s>>
    ELSE LET k == CHOOSE j \in 1..Len(s) :
                      s[j] = " " /\ \A h \in 1..(j - 1) : s[h] # " "
         IN <<SubSeq(s, 1, k - 1)>> \o split(SubSeq(s, k + 1, Len(s)))

ProjectDirFlag == <<"--project-dir">>
ProfilesDirFlag == <<"--profiles-dir">>

\* the token list execute_dbt_command hands to dbtRunner.invoke
cli_args(command, project_directory, profile_directory) ==
    split(StripMarker(command))
        \o <<ProjectDirFlag, str(project_directory)>>
        \o (IF IsNone(profile_directory) THEN <<>>
            ELSE <<ProfilesDirFlag, str(profile_directory)>>)

-----------------------------------------------------------------------------
(* dbt's objects, as far as this code reads them *)

\* NodeStatus members named by the code and its tests, by value
NodeStatus == {"success", "error", "fail", "skipped", "warn", "pass"}

\* NodeType members, by value
NodeType == {"model", "test"}

\* One entry of RunExecutionResult.results.  isNode tells a NodeResult from
\* an outcome of another type.
NoAttrs == [k \in {} |-> None]

Result(isNode, status, resource_type, failures) ==
    [t |-> IF isNode THEN "NodeResult" ELSE "BaseResult",
     status |-> PyStr(status),
     failures |-> failures,
     node |-> [resource_type |-> resource_type],
     adapter_response |-> NoAttrs]

\* The result with the mapping its adapter reported
WithAdapterResponse(result, adapter_response) ==
    [result EXCEPT !.adapter_response = adapter_response]

\* The outcome object of one invocation.  attrs are the attributes getattr
\* finds on it: results always, metadata unless it is missing, and those
\* of extra.  truthy is the object's truth value, which its class decides.
Outcome(res, truthy, metadata, extra) ==
    [t |-> "RunExecutionResult",
     truthy |-> truthy,
     attrs |-> [k \in {"results"} \cup (IF IsNone(metadata) THEN {} ELSE {"metadata"})
                        \cup DOMAIN extra |->
                  CASE k = "results" -> res
                    [] k = "metadata" -> metadata
                    [] OTHER -> extra[k]]]

\* A metadata object with the attributes of attrs
Metadata(attrs) == [t |-> "ManifestMetadata", attrs |-> attrs]


-----------------------------------------------------------------------------
(* models.py: Manifest *)

PyException(type, msg) == [t |-> "exception", type |-> type, msg |-> msg]

\* A variant without the final check for a missing outcome
ManifestInitUnchecked(command, run_execution_result, dbt_manifest) ==
    LET useLegacy == IsNone(run_execution_result) /\ ~IsNone(dbt_manifest)
        rer == IF useLegacy THEN dbt_manifest ELSE run_execution_result
    IN  [warned |-> useLegacy,
         raised |-> None,
         obj |-> [t |-> "Manifest", command |-> command,
                  run_execution_result |-> rer]]

\* Manifest.__init__: the constructed wrapper, or the exception it raises;
\* warned tells whether the deprecation warning was issued
ManifestInit(command, run_execution_result, dbt_manifest) ==
    LET useLegacy == IsNone(run_execution_result) /\ ~IsNone(dbt_manifest)
        rer == IF useLegacy THEN dbt_manifest ELSE run_execution_result
    IN  [warned |-> useLegacy,
         raised |-> IF IsNone(rer)
                    THEN PyException("Exception", "missing run_execution_result")
                    ELSE None,
         obj |-> IF IsNone(rer) THEN None
                 ELSE [t |-> "Manifest", command |-> command,
                       run_execution_result |-> rer]]

hasattr(obj, key) == key \in DOMAIN obj.attrs

AttributeError(self, key) ==
    PyException("AttributeError", [type_name |-> self.t, key |-> key])

\* A variant that asks the outcome object before its metadata
ManifestGetattrOutcomeFirst(self, key) ==
    LET res == self.run_execution_result
        metadata == IF hasattr(res, "metadata") THEN res.attrs["metadata"] ELSE None
    IN  IF hasattr(res, key)
        THEN [raised |-> None, value |-> res.attrs[key]]
        ELSE IF ~IsNone(metadata) /\ hasattr(metadata, key)
             THEN [raised |-> None, value |-> metadata.attrs[key]]
             ELSE [raised |-> AttributeError(self, key), value |-> None]

\* Manifest.__getattr__(key), which Python calls when key is no attribute of
\* the wrapper itself: the value found, or the AttributeError raised
ManifestGetattr(self, key) ==
    LET res == self.run_execution_result
        metadata == IF hasattr(res, "metadata") THEN res.attrs["metadata"] ELSE None
    IN  IF ~IsNone(metadata) /\ hasattr(metadata, key)
        THEN [raised |-> None, value |-> metadata.attrs[key]]
        ELSE IF hasattr(res, key)
             THEN [raised |-> None, value |-> res.attrs[key]]
             ELSE [raised |-> AttributeError(self, key), value |-> None]

\* self.results, which the wrapper does not define itself
Results(self) == ManifestGetattr(self, "results").value

\* isinstance(result, NodeResult)
IsNodeResult(result) == result.t = "NodeResult"

\* str(getattr(result, key)) == value for one constraint key=value
ConstraintHolds(result, key, value) == PyEq(PyStr(str(result[key])), value)

\* A variant that keeps outcomes of every type
filter_resultsOfAnyType(self, kwargs) ==
    LET Keep(result) ==
            \A key \in DOMAIN kwargs : ConstraintHolds(result, key, kwargs[key])
    IN  SelectSeq(Results(self), Keep)

\* Manifest.filter_results(**kwargs); kwargs maps each key given to its value
filter_results(self, kwargs) ==
    LET Keep(result) ==
            /\ IsNodeResult(result)
            /\ \A key \in DOMAIN kwargs : ConstraintHolds(result, key, kwargs[key])
    IN  SelectSeq(Results(self), Keep)

\* The single constraint status=<member of NodeStatus>
StatusIs(status) == [k \in {"status"} |-> PyStr(status)]

warnings(self) == filter_results(self, StatusIs("warn"))
errors(self) == filter_results(self, StatusIs("error"))
fails(self) == filter_results(self, StatusIs("fail"))

\* A variant that keeps skipped outcomes of every resource type
skipsOfAnyType(self) == filter_results(self, StatusIs("skipped"))

\* Manifest.skips
skips(self) ==
    LET IsModel(result) == result.node.resource_type = "model"
    IN  SelectSeq(filter_results(self, StatusIs("skipped")), IsModel)

\* NodeStatus(value): the member of NodeStatus with that value
NodeStatusOf(status) == CHOOSE member \in NodeStatus : member = status.v

\* A variant that records which keys were met, not how often
CounterOfPresence(keys) == [k \in {keys[i] : i \in 1..Len(keys)} |-> 1]

\* collections.Counter(keys): each key met, mapped to how often it was met
RECURSIVE Counter(_)
Counter(keys) ==
    IF keys = <<>>
    THEN [k \in {} |-> 0]
    ELSE LET c == Counter(SubSeq(keys, 1, Len(keys) - 1))
             last == keys[Len(keys)]
         IN  [k \in DOMAIN c \cup {last} |->
                (IF k \in DOMAIN c THEN c[k] ELSE 0) + (IF k = last THEN 1 ELSE 0)]

\* counter.get(key, 0)
\* dict.get(key, default)
DictGet(dict, key, default) == IF key \in DOMAIN dict THEN dict[key] ELSE default

\* sum() of a list of ints
RECURSIVE sum(_)
sum(list) == IF list = <<>> THEN 0 ELSE Head(list).v + sum(Tail(list))

\* The quotient of true division, kept exact
TrueDiv(num, den) == [t |-> "float", num |-> num, den |-> den]

BytesPerGb == 1000000000

\* A variant that counts one byte for a result whose adapter reported none
total_gb_processedCountingAbsent(self) ==
    TrueDiv(sum([i \in 1..Len(Results(self)) |->
                    DictGet(Results(self)[i].adapter_response,
                            "bytes_processed", PyInt(1))]),
            BytesPerGb)

\* Manifest.total_gb_processed
total_gb_processed(self) ==
    TrueDiv(sum([i \in 1..Len(Results(self)) |->
                    DictGet(Results(self)[i].adapter_response,
                            "bytes_processed", PyInt(0))]),
            BytesPerGb)

CounterGet(counter, key) == IF key \in DOMAIN counter THEN counter[key] ELSE 0

\* Manifest.summary
summary(self) ==
    Counter([i \in 1..Len(Results(self)) |-> NodeStatusOf(Results(self)[i].status)])

\* A variant that looks at warnings before errors and fails
overall_statusWarnFirst(self) ==
    LET has_success == \E k \in {"success", "pass"} : CounterGet(summary(self), k) > 0
    IN  IF warnings(self) # <<>> THEN "warn"
        ELSE IF errors(self) # <<>> \/ fails(self) # <<>> THEN "error"
        ELSE IF skips(self) # <<>> /\ ~has_success THEN "skipped"
        ELSE "success"

\* Manifest.overall_status
overall_status(self) ==
    LET has_success == \E k \in {"success", "pass"} : CounterGet(summary(self), k) > 0
    IN  IF errors(self) # <<>> \/ fails(self) # <<>> THEN "error"
        ELSE IF warnings(self) # <<>> THEN "warn"
        ELSE IF skips(self) # <<>> /\ ~has_success THEN "skipped"
        ELSE "success"

\* Attributes Python finds on the wrapper before it asks __getattr__
InstanceFields == {"command", "run_execution_result"}
Properties == {"overall_status", "warnings", "errors", "fails", "skips", "summary"}

PropertyValue(self, key) ==
    CASE key = "overall_status" -> overall_status(self)
      [] key = "warnings" -> warnings(self)
      [] key = "errors" -> errors(self)
      [] key = "fails" -> fails(self)
      [] key = "skips" -> skips(self)
      [] key = "summary" -> summary(self)

\* manifest.<key>: the wrapper's own attribute, or what __getattr__ gives
Getattr(self, key) ==
    IF key \in InstanceFields THEN [raised |-> None, value |-> self[key]]
    ELSE IF key \in Properties
         THEN [raised |-> None, value |-> PropertyValue(self, key)]
         ELSE ManifestGetattr(self, key)

-----------------------------------------------------------------------------
(* dbt.py: dbtRunnerParsons *)

\* if result.run_execution_result: the truth value of the outcome object
Truthy(value) == IF IsNone(value) THEN FALSE ELSE value.truthy

\* dbtRunnerParsons.__init__: a single command string becomes a list of one
NormaliseCommands(commands_arg) ==
    IF commands_arg.t = "str" THEN <<commands_arg.v>> ELSE commands_arg.v

\* A variant that raises a generic error in place of the runner's exception
ExecuteDbtCommandWrapping(command, response) ==
    IF ~IsNone(response.exception)
    THEN [raised |-> PyException("Exception", "dbt command failed"), obj |-> None]
    ELSE LET m == ManifestInit(StripMarker(command), response.result, None)
         IN  [raised |-> m.raised, obj |-> m.obj]

\* A variant that hands the command as supplied to the wrapper
ExecuteDbtCommandKeepingMarker(command, response) ==
    IF ~IsNone(response.exception)
    THEN [raised |-> response.exception, obj |-> None]
    ELSE LET m == ManifestInit(command, response.result, None)
         IN  [raised |-> m.raised, obj |-> m.obj]

\* execute_dbt_command once dbt.invoke has answered response: the wrapper
\* returned, or the exception raised
ExecuteDbtCommand(command, response) ==
    IF ~IsNone(response.exception)
    THEN [raised |-> response.exception, obj |-> None]
    ELSE LET m == ManifestInit(StripMarker(command), response.result, None)
         IN  [raised |-> m.raised, obj |-> m.obj]

\* A variant that puts the newest wrapper first
CollectPrepending(collected, result) ==
    IF Truthy(result.run_execution_result)
    THEN <<result>> \o collected
    ELSE collected

\* run(): results.append(result) when result.run_execution_result is truthy
Collect(collected, result) ==
    IF Truthy(result.run_execution_result)
    THEN Append(collected, result)
    ELSE collected

\* One turn of run()'s loop: execute_dbt_command for commands[idx], with the
\* runner answering response.
RunStep(response) ==
    /\ idx <= Len(commands)
    /\ LET command == commands[idx]
           r == ExecuteDbtCommand(command, response)
       IN  /\ invoked' = Append(invoked,
                    [pos |-> idx,
                     command |-> command,
                     args |-> cli_args(command, dbt_project_directory,
                                       dbt_profile_directory),
                     response |-> response])
           /\ IF ~IsNone(r.raised)
              THEN /\ pc' = "raised"
                   /\ raised' = r.raised
                   /\ UNCHANGED <<idx, results>>
              ELSE /\ results' = Collect(results, r.obj)
                   /\ idx' = idx + 1
                   /\ UNCHANGED <<pc, raised>>
    /\ UNCHANGED <<commands, dbt_project_directory, dbt_profile_directory,
                   loggers, notified,
                   man, view>>

\* What the runner can answer: the exceptions and outcome objects drawn
Exceptions ==
    {PyException("DbtInternalException", "dbt profile not found"),
     PyException("DbtRuntimeError", "compilation error")}

RunOutcomes ==
    {Outcome(<<>>, TRUE, None, NoAttrs),
     Outcome(<<>>, FALSE, None, NoAttrs),
     Outcome(<<Result(TRUE, "success", "model", None)>>, TRUE, None, NoAttrs),
     Outcome(<<Result(TRUE, "error", "model", None)>>, TRUE, None, NoAttrs)}

RunnerResponses ==
    [exception : Exceptions \cup {None}, result : RunOutcomes \cup {None}]

\* dbt.invoke reports an exception: execute_dbt_command raises it
InvokeRaises ==
    /\ pc = "run"
    /\ \E response \in RunnerResponses :
            /\ ~IsNone(response.exception)
            /\ RunStep(response)

\* dbt.invoke reports no exception and no result
InvokeWithoutResult ==
    /\ pc = "run"
    /\ \E response \in RunnerResponses :
            /\ IsNone(response.exception)
            /\ IsNone(response.result)
            /\ RunStep(response)

\* dbt.invoke reports a result that run() keeps
InvokeKept ==
    /\ pc = "run"
    /\ \E response \in RunnerResponses :
            /\ IsNone(response.exception)
            /\ ~IsNone(response.result)
            /\ Truthy(response.result)
            /\ RunStep(response)

\* dbt.invoke reports a result whose truth value is false
InvokeDropped ==
    /\ pc = "run"
    /\ \E response \in RunnerResponses :
            /\ IsNone(response.exception)
            /\ ~IsNone(response.result)
            /\ ~Truthy(response.result)
            /\ RunStep(response)

\* run(): the loop is over, return results
Return ==
    /\ pc = "run"
    /\ idx > Len(commands)
    /\ pc' = "done"
    /\ UNCHANGED <<commands, dbt_project_directory, dbt_profile_directory,
                   loggers, notified,
                   idx, results, invoked, raised, man, view>>

-----------------------------------------------------------------------------
(* dbt.py: run_dbt_commands, after dbt_runner.run() has returned *)

\* A logger given as an instance of dbtLogger, or as a class to instantiate
LoggerInstance(cls) == [t |-> "instance", cls |-> cls, by |-> "caller"]
LoggerType(cls) == [t |-> "type", cls |-> cls]

\* isinstance(dbt_logger, dbtLogger)
isinstance(dbt_logger) == dbt_logger.t = "instance"

\* dbt_logger(): the instance the class makes, called with no arguments
Instantiate(dbt_logger) ==
    [t |-> "instance", cls |-> dbt_logger.cls, by |-> "run_dbt_commands"]

\* The list the for loop goes through: empty unless `if loggers:` holds,
\* None and the empty list being false
LoggerList == IF IsNone(loggers) THEN <<>> ELSE loggers.v

\* The position of the for loop in loggers: one past the loggers sent to
Sent == Cardinality({i \in 1..Len(notified) : notified[i].op = "send"})
AtLogger == Sent + 1

\* A variant that calls send on the logger as it was given
LoggerCallsUninstantiated(pos, dbt_logger, arg) ==
    <<[op |-> "send", pos |-> pos, self |-> dbt_logger, arg |-> arg]>>

\* The calls one pass of the loop body makes for the logger at pos
LoggerCalls(pos, dbt_logger, arg) ==
    IF isinstance(dbt_logger)
    THEN <<[op |-> "send", pos |-> pos, self |-> dbt_logger, arg |-> arg]>>
    ELSE <<[op |-> "init", pos |-> pos, cls |-> dbt_logger.cls, args |-> <<>>],
           [op |-> "send", pos |-> pos, self |-> Instantiate(dbt_logger),
            arg |-> arg]>>

LoggerFailures ==
    {PyException("Exception", "send failed")}

\* One pass of the loop body, send returning
Send ==
    /\ pc = "done"
    /\ AtLogger <= Len(LoggerList)
    /\ notified' = notified \o LoggerCalls(AtLogger, LoggerList[AtLogger], results)
    /\ UNCHANGED <<commands, dbt_project_directory, dbt_profile_directory,
                   loggers, pc, idx, results, invoked, raised, man, view>>

\* One pass of the loop body, send raising: the exception leaves the call
SendRaises ==
    /\ pc = "done"
    /\ AtLogger <= Len(LoggerList)
    /\ \E e \in LoggerFailures :
           /\ notified' = notified \o
                              LoggerCalls(AtLogger, LoggerList[AtLogger], results)
           /\ raised' = e
           /\ pc' = "raised"
    /\ UNCHANGED <<commands, dbt_project_directory, dbt_profile_directory,
                   loggers, idx, results, invoked, man, view>>

\* return dbt_command_results
ReturnCommands ==
    /\ pc = "done"
    /\ AtLogger > Len(LoggerList)
    /\ pc' = "returned"
    /\ UNCHANGED <<commands, dbt_project_directory, dbt_profile_directory,
                   loggers, notified, idx, results, invoked, raised, man, view>>

-----------------------------------------------------------------------------
(* The batch: run() on command lists drawn from a pool, and on every single *)
(* command over a small alphabet                                            *)

SeqsUpTo(S, n) == UNION {[1..k -> S] : k \in 0..n}

CommandPool ==
    {<<"d", "b", "t", " ", "r", "u", "n">>,
     <<"r", "u", "n">>,
     <<"t", "e", "s", "t">>}

CommandInputs ==
    {[t |-> "str", v |-> c] : c \in CommandPool}
        \cup {[t |-> "list", v |-> l] : l \in SeqsUpTo(CommandPool, MaxCommands)}

\* Every single command over a small alphabet that is not empty and neither
\* starts nor ends with a space, for the tokenisation
Alphabet == {"d", "b", "t", " "}
TokenInputs ==
    {[t |-> "str", v |-> c] :
        c \in {x \in SeqsUpTo(Alphabet, MaxCmdLen) :
                  x # <<>> /\ x[1] # " " /\ x[Len(x)] # " "}}

ProjectDir == Path("/path/to/project")
ProfileDirs == {None, Path("/path/to/profiles")}

\* The loggers of a call: instances and classes, in every order
LoggerPool == {LoggerInstance("dbtLoggerPython"), LoggerType("dbtLoggerSlack")}
LoggerInputs ==
    {None} \cup {[t |-> "list", v |-> l] : l \in SeqsUpTo(LoggerPool, MaxLoggers)}

\* The state after dbtRunnerParsons(commands_arg, project, profile), at the
\* entry of run()
Constructed(commands_arg, project, profile) ==
    /\ commands = NormaliseCommands(commands_arg)
    /\ dbt_project_directory = project
    /\ dbt_profile_directory = profile
    /\ pc = "run"
    /\ idx = 1
    /\ results = <<>>
    /\ invoked = <<>>
    /\ raised = None
    /\ man = None
    /\ view = [op |-> "none"]

\* run_dbt_commands(commands_arg, ProjectDir, profile, loggers_arg) at the
\* entry of dbt_runner.run(); the commands of the tokenisation run without
\* loggers
InitRun ==
    \/ \E commands_arg \in CommandInputs \cup TokenInputs, profile \in ProfileDirs :
           /\ Constructed(commands_arg, ProjectDir, profile)
           /\ loggers = None
           /\ notified = <<>>
    \/ \E commands_arg \in CommandInputs, loggers_arg \in LoggerInputs :
           /\ Constructed(commands_arg, ProjectDir, None)
           /\ loggers = loggers_arg
           /\ notified = <<>>

NextRun ==
    \/ InvokeRaises
    \/ InvokeWithoutResult
    \/ InvokeKept
    \/ InvokeDropped
    \/ Return
    \/ Send
    \/ SendRaises
    \/ ReturnCommands

-----------------------------------------------------------------------------
(* The wrapper: Manifest(...) on outcome objects drawn from a pool, then   *)
(* one of its views                                                        *)

\* The outcomes a result set is made of: test nodes that fail carry a failure
\* count; an outcome of another type carries a status only
ResultPool ==
    {Result(TRUE, s, rt, IF s = "fail" THEN PyInt(1) ELSE None) :
        s \in NodeStatus, rt \in NodeType}
        \cup {Result(FALSE, s, "model", None) : s \in {"success", "error", "skipped"}}

\* Outcome objects that differ in their result set
ViewOutcomes ==
    {Outcome(res, TRUE, None, NoAttrs) : res \in SeqsUpTo(ResultPool, MaxResults)}

\* The mappings an adapter reports, with and without bytes_processed
AdapterResponses ==
    {NoAttrs,
     [slot_ms |-> PyInt(3600000)],
     [bytes_processed |-> PyInt(250000000)],
     [bytes_processed |-> PyInt(500000000), slot_ms |-> PyInt(3600000)]}

\* Outcome objects that differ in what the adapter reported for each result
BytesPool ==
    {WithAdapterResponse(Result(TRUE, "success", "model", None), a) :
        a \in AdapterResponses}
        \cup {WithAdapterResponse(Result(FALSE, "success", "model", None),
                                   [bytes_processed |-> PyInt(500000000)])}

BytesOutcomes ==
    {Outcome(res, TRUE, None, NoAttrs) : res \in SeqsUpTo(BytesPool, MaxResults)}

\* Outcome objects that differ in the attributes they and their metadata have
AttrKeys == {"command", "project_id"}
PartialFns(K, V) == UNION {[S -> V] : S \in SUBSET K}
AttrOutcomes ==
    {Outcome(<<>>, TRUE, metadata, extra) :
        metadata \in {None} \cup {Metadata(f) :
                        f \in PartialFns(AttrKeys, {PyStr("m1"), PyStr("m2")})},
        extra \in PartialFns(AttrKeys, {PyStr("o1"), PyStr("o2")})}

LegacyOutcome ==
    Outcome(<<Result(TRUE, "pass", "test", None)>>, TRUE, None, NoAttrs)

\* The constraints filter_results is called with
FilterValues(key) ==
    IF key = "status" THEN {PyStr("fail")}
    ELSE {PyStr("1"), PyInt(1), PyStr("None")}

FilterKwargs ==
    UNION {{kwargs \in [S -> UNION {FilterValues(key) : key \in S}] :
                \A key \in S : kwargs[key] \in FilterValues(key)} :
            S \in SUBSET {"status", "failures"}}

LookupKeys ==
    AttrKeys \cup InstanceFields \cup Properties \cup {"results", "metadata", "missing_key"}

\* Manifest(command, run_execution_result, dbt_manifest=dbt_manifest)
Construct(command, run_execution_result, dbt_manifest) ==
    /\ LET m == ManifestInit(command, run_execution_result, dbt_manifest)
       IN  /\ view' = [op |-> "Manifest",
                       args |-> [run_execution_result |-> run_execution_result,
                                 dbt_manifest |-> dbt_manifest],
                       warned |-> m.warned]
           /\ man' = m.obj
           /\ raised' = m.raised
           /\ pc' = IF IsNone(m.raised) THEN "wrapped" ELSE "raised"
    /\ UNCHANGED <<commands, dbt_project_directory, dbt_profile_directory,
                   loggers, notified,
                   idx, results, invoked>>

ConstructWrapper ==
    /\ pc = "new"
    /\ \E rer \in ViewOutcomes \cup BytesOutcomes \cup AttrOutcomes \cup {None},
          legacy \in {None, LegacyOutcome} :
           /\ ~(IsNone(rer) /\ IsNone(legacy))
           /\ Construct(PyStr("run"), rer, legacy)

ConstructFails ==
    /\ pc = "new"
    /\ Construct(PyStr("run"), None, None)

\* One read of the wrapper: view records what was asked and what came back
Viewed(op, args, out) ==
    /\ view' = [op |-> op, args |-> args, out |-> out]
    /\ pc' = "viewed"
    /\ UNCHANGED <<commands, dbt_project_directory, dbt_profile_directory,
                   loggers, notified,
                   idx, results, invoked, raised, man>>

FilterResults ==
    /\ pc = "wrapped"
    /\ \E kwargs \in FilterKwargs :
           Viewed("filter_results", kwargs, filter_results(man, kwargs))

ReadWarnings ==
    /\ pc = "wrapped"
    /\ Viewed("warnings", None, warnings(man))

ReadErrors ==
    /\ pc = "wrapped"
    /\ Viewed("errors", None, errors(man))

ReadFails ==
    /\ pc = "wrapped"
    /\ Viewed("fails", None, fails(man))

ReadSkips ==
    /\ pc = "wrapped"
    /\ Viewed("skips", None, skips(man))

ReadSummary ==
    /\ pc = "wrapped"
    /\ Viewed("summary", None, summary(man))

ReadOverallStatus ==
    /\ pc = "wrapped"
    /\ Viewed("overall_status", None, overall_status(man))

ReadTotalGbProcessed ==
    /\ pc = "wrapped"
    /\ Viewed("total_gb_processed", None, total_gb_processed(man))

ReadAttribute ==
    /\ pc = "wrapped"
    /\ \E key \in LookupKeys :
           Viewed("getattr", key, Getattr(man, key))

\* Before Manifest(...) is called: no runner, no wrapper
InitManifest ==
    /\ commands = <<>>
    /\ dbt_project_directory = ProjectDir
    /\ dbt_profile_directory = None
    /\ pc = "new"
    /\ idx = 1
    /\ results = <<>>
    /\ invoked = <<>>
    /\ raised = None
    /\ man = None
    /\ view = [op |-> "none"]
    /\ loggers = None
    /\ notified = <<>>

NextManifest ==
    \/ ConstructWrapper
    \/ ConstructFails
    \/ FilterResults
    \/ ReadWarnings
    \/ ReadErrors
    \/ ReadFails
    \/ ReadSkips
    \/ ReadSummary
    \/ ReadOverallStatus
    \/ ReadTotalGbProcessed
    \/ ReadAttribute

-----------------------------------------------------------------------------
(* The module's two entry points *)

Init == InitRun \/ InitManifest

Next == NextRun \/ NextManifest

Spec == Init /\ [][Next]_vars

-----------------------------------------------------------------------------
(* Properties of the batch *)

\* The invocation at position k reported an exception
Reported(k) == ~IsNone(invoked[k].response.exception)

\* The invocation at position k reported neither an exception nor a result
WithoutResult(k) ==
    IsNone(invoked[k].response.exception) /\ IsNone(invoked[k].response.result)

\* C1: the runner is invoked at most once per command, in list order; when
\* the invocation for the command at position N reports an exception, it is
\* the last invocation of the batch and that very exception leaves run().
C1_FailFast ==
    /\ Len(invoked) <= Len(commands)
    /\ \A k \in 1..Len(invoked) :
          /\ invoked[k].pos = k
          /\ invoked[k].command = commands[k]
          /\ Reported(k) =>
                /\ k = Len(invoked)
                /\ pc = "raised"
                /\ raised = invoked[k].response.exception

\* a batch of two whose first invocation reported an exception
C1_Witness ==
    /\ Len(commands) = 2
    /\ Len(invoked) = 1
    /\ Reported(1)
    /\ pc = "raised"

\* C2: an invocation that reports no exception and no result does not make
\* run() fail.
C2_MissingOutcomeSkipped ==
    \A k \in 1..Len(invoked) : WithoutResult(k) => pc # "raised"

\* C3: when run() returns, its list holds at most one wrapper per command,
\* in command order, each holding the outcome its command's invocation gave.
C3_OrderPreserved ==
    pc = "done" =>
        /\ Len(invoked) = Len(commands)
        /\ \E f \in [1..Len(results) -> 1..Len(invoked)] :
              /\ \A a, b \in 1..Len(results) : a < b => f[a] < f[b]
              /\ \A j \in 1..Len(results) :
                    /\ invoked[f[j]].command = commands[f[j]]
                    /\ results[j].run_execution_result = invoked[f[j]].response.result

\* run() returned two wrappers holding different outcomes
C3_Witness ==
    /\ pc = "done"
    /\ Len(results) = 2
    /\ results[1].run_execution_result # results[2].run_execution_result

\* C4: a wrapper always holds an outcome object, in run()'s list and when
\* constructed directly; Manifest(...) raises exactly when neither the
\* outcome argument nor the deprecated keyword is given.
C4_WrapperHoldsOutcome ==
    /\ \A j \in 1..Len(results) : ~IsNone(results[j].run_execution_result)
    /\ ~IsNone(man) => ~IsNone(man.run_execution_result)
    /\ view.op = "Manifest" =>
          ((IsNone(view.args.run_execution_result) /\ IsNone(view.args.dbt_manifest))
              <=> (pc = "raised" /\ ~IsNone(raised) /\ IsNone(man)))
    /\ pc = "wrapped" => ~IsNone(man)

\* Manifest(...) was called with neither argument and raised
C4_Witness ==
    /\ view.op = "Manifest"
    /\ IsNone(view.args.run_execution_result)
    /\ IsNone(view.args.dbt_manifest)
    /\ pc = "raised"
    /\ raised = PyException("Exception", "missing run_execution_result")

-----------------------------------------------------------------------------
(* Properties of the wrapper's views *)

\* The result set of the wrapper under inspection
ResultSet == man.run_execution_result.attrs["results"]

\* The positions of the node outcomes with the given status
NodesWith(status) ==
    {i \in 1..Len(ResultSet) :
        ResultSet[i].t = "NodeResult" /\ ResultSet[i].status.v = status}

\* The positions of all outcomes with the given status
OutcomesWith(status) ==
    {i \in 1..Len(ResultSet) : ResultSet[i].status.v = status}

\* seq lists exactly the outcomes at the positions of where, in result order
ListsInOrder(seq, where) ==
    /\ Len(seq) = Cardinality(where)
    /\ \E f \in [1..Len(seq) -> where] :
          /\ \A a, b \in 1..Len(seq) : a < b => f[a] < f[b]
          /\ \A j \in 1..Len(seq) : seq[j] = ResultSet[f[j]]

\* C5: overall_status is Error if a node has status Error or Fail; else Warn
\* if a node has status Warn; else Skipped if a Model node was skipped and
\* no outcome has status Success or Pass; else Success.
C5_OverallStatusLadder ==
    view.op = "overall_status" =>
        view.out =
            IF NodesWith("error") \cup NodesWith("fail") # {} THEN "error"
            ELSE IF NodesWith("warn") # {} THEN "warn"
            ELSE IF /\ \E i \in NodesWith("skipped") :
                         ResultSet[i].node.resource_type = "model"
                    /\ OutcomesWith("success") \cup OutcomesWith("pass") = {}
                 THEN "skipped"
            ELSE "success"

\* a result set with an Error node and a Warn node gave Error
C5_Witness ==
    /\ view.op = "overall_status"
    /\ NodesWith("error") # {}
    /\ NodesWith("warn") # {}
    /\ view.out = "error"

\* C6: skips lists exactly the node outcomes with status Skipped and
\* resource type Model, in result order.
C6_SkipsModelsOnly ==
    view.op = "skips" =>
        ListsInOrder(view.out,
            {i \in NodesWith("skipped") : ResultSet[i].node.resource_type = "model"})

\* a skipped Model and a skipped Test: only the Model is listed
C6_Witness ==
    /\ view.op = "skips"
    /\ Len(view.out) = 1
    /\ \E i \in NodesWith("skipped") : ResultSet[i].node.resource_type = "test"

RECURSIVE SumOver(_, _)
SumOver(counter, keys) ==
    IF keys = {} THEN 0
    ELSE LET k == CHOOSE x \in keys : TRUE
         IN  counter[k] + SumOver(counter, keys \ {k})

\* C7: summary maps each status to the number of outcomes of the result set
\* that carry it; a status no outcome carries counts 0, and the counts sum
\* to the size of the result set.
C7_SummaryCounts ==
    view.op = "summary" =>
        /\ \A status \in NodeStatus :
              CounterGet(view.out, status) = Cardinality(OutcomesWith(status))
        /\ DOMAIN view.out \subseteq NodeStatus
        /\ SumOver(view.out, DOMAIN view.out) = Len(ResultSet)

\* two outcomes with the same status are counted twice
C7_Witness ==
    /\ view.op = "summary"
    /\ Len(ResultSet) = 2
    /\ ResultSet[1].status = ResultSet[2].status
    /\ view.out[ResultSet[1].status.v] = 2

\* C8: filter_results returns, in result order, exactly the node outcomes
\* for which every constraint's field and value are equal as strings.
C8_FilterComparesStrings ==
    view.op = "filter_results" =>
        ListsInOrder(view.out,
            {i \in 1..Len(ResultSet) :
                /\ ResultSet[i].t = "NodeResult"
                /\ \A key \in DOMAIN view.args :
                      str(ResultSet[i][key]) = str(view.args[key])})

\* C9: attribute lookup takes the wrapper's own attribute, else the
\* metadata's, else the outcome object's, else raises an AttributeError that
\* names the wrapper type and the key.
C9_LookupOrder ==
    view.op = "getattr" =>
        LET key == view.args
            res == man.run_execution_result
            onWrapper == key \in {"command", "run_execution_result",
                                  "overall_status", "warnings", "errors",
                                  "fails", "skips", "summary"}
            onMetadata == /\ "metadata" \in DOMAIN res.attrs
                          /\ key \in DOMAIN res.attrs["metadata"].attrs
            onOutcome == key \in DOMAIN res.attrs
        IN  IF onWrapper
            THEN /\ IsNone(view.out.raised)
                 /\ key \in {"command", "run_execution_result"} =>
                        view.out.value = man[key]
            ELSE IF onMetadata
            THEN /\ IsNone(view.out.raised)
                 /\ view.out.value = res.attrs["metadata"].attrs[key]
            ELSE IF onOutcome
            THEN /\ IsNone(view.out.raised)
                 /\ view.out.value = res.attrs[key]
            ELSE /\ view.out.raised.type = "AttributeError"
                 /\ view.out.raised.msg = [type_name |-> "Manifest", key |-> key]

\* a key that the metadata and the outcome object both have, with different
\* values: the metadata's value is returned
C9_Witness ==
    /\ view.op = "getattr"
    /\ view.args = "project_id"
    /\ "metadata" \in DOMAIN man.run_execution_result.attrs
    /\ "project_id" \in DOMAIN man.run_execution_result.attrs["metadata"].attrs
    /\ "project_id" \in DOMAIN man.run_execution_result.attrs
    /\ view.out.value = man.run_execution_result.attrs["metadata"].attrs["project_id"]
    /\ view.out.value # man.run_execution_result.attrs["project_id"]

-----------------------------------------------------------------------------
(* Properties of the token list *)

\* The tokens of s between runs of spaces; no token is empty
RECURSIVE WhitespaceTokens(_)
WhitespaceTokens(s) ==
    IF s = <<>> THEN <<>>
    ELSE IF s[1] = " " THEN WhitespaceTokens(Tail(s))
    ELSE LET ends == {k \in 1..Len(s) : \A h \in 1..k : s[h] # " "}
             n == CHOOSE k \in ends : \A other \in ends : other <= k
         IN  <<SubSeq(s, 1, n)>> \o WhitespaceTokens(SubSeq(s, n + 1, Len(s)))

\* C10: the runner receives the whitespace-separated tokens of the command
\* without one leading "dbt " marker, then --project-dir and the project
\* path, then --profiles-dir and the profile path iff a profile was given.
C10_TokenList ==
    \A k \in 1..Len(invoked) :
        invoked[k].args =
            WhitespaceTokens(StripMarker(invoked[k].command))
                \o <<ProjectDirFlag, <<"/path/to/project">>>>
                \o (IF IsNone(dbt_profile_directory) THEN <<>>
                    ELSE <<ProfilesDirFlag, <<"/path/to/profiles">>>>)

-----------------------------------------------------------------------------
(* Further properties of the wrapper and of the batch *)

\* The loggers of the call, none when the argument is None
Targets == IF IsNone(loggers) THEN <<>> ELSE loggers.v

\* The positions in notified of the send calls
SendCalls == {i \in 1..Len(notified) : notified[i].op = "send"}

\* The call at position i of notified is the send the logger at position j
\* of the list is due: on the instance itself, or on an instance its class
\* made, with no arguments, in the call just before
SendDue(i, j) ==
    /\ notified[i].pos = j
    /\ notified[i].arg = results
    /\ IF Targets[j].t = "instance"
       THEN /\ notified[i].self = Targets[j]
            /\ \A k \in 1..Len(notified) :
                   notified[k].op = "init" => notified[k].pos # j
       ELSE /\ i > 1
            /\ notified[i - 1].op = "init"
            /\ notified[i - 1].pos = j
            /\ notified[i - 1].cls = Targets[j].cls
            /\ notified[i - 1].args = <<>>
            /\ notified[i].self.t = "instance"
            /\ notified[i].self.cls = Targets[j].cls
            /\ notified[i].self.by = "run_dbt_commands"

\* C11: a logger is called only after every command of the batch has been
\* invoked and none raised; the loggers are sent to in list order, once each,
\* with the list of wrappers the call returns; a class is instantiated with
\* no arguments just before its send and an instance is used as given; when
\* the call returns every logger has been sent to.
C11_DispatchAfterBatch ==
    /\ notified # <<>> =>
          /\ idx > Len(commands)
          /\ Len(invoked) = Len(commands)
          /\ \A k \in 1..Len(invoked) :
                /\ IsNone(invoked[k].response.exception)
                /\ ~IsNone(invoked[k].response.result)
    /\ Cardinality(SendCalls) <= Len(Targets)
    /\ \A i \in SendCalls :
          SendDue(i, Cardinality({k \in SendCalls : k <= i}))
    /\ pc = "returned" => Cardinality(SendCalls) = Len(Targets)

\* two commands ran, and a class and then an instance were sent the two
\* wrappers before the call returned
C11_Witness ==
    /\ pc = "returned"
    /\ Len(results) = 2
    /\ Len(Targets) = 2
    /\ Targets[1].t = "type"
    /\ Targets[2].t = "instance"
    /\ Len(notified) = 3
    /\ notified[3].op = "send"
    /\ notified[3].arg = results

\* C12: Manifest(...) with the deprecated keyword given issues the
\* deprecation warning and does not raise; the wrapper holds the deprecated
\* value when the outcome argument is absent, and the outcome argument
\* when both are given.
C12_DeprecatedKeywordWarns ==
    (view.op = "Manifest" /\ ~IsNone(view.args.dbt_manifest)) =>
        /\ view.warned
        /\ pc = "wrapped"
        /\ man.run_execution_result =
              IF IsNone(view.args.run_execution_result)
              THEN view.args.dbt_manifest
              ELSE view.args.run_execution_result

\* C14: every wrapper run() returns carries a command of the command list,
\* as the caller wrote it, together with that command's outcome.
C14_CommandAsSupplied ==
    pc = "done" =>
        \A j \in 1..Len(results) :
            \E k \in 1..Len(invoked) :
                /\ results[j].command = commands[k]
                /\ results[j].run_execution_result = invoked[k].response.result

\* The command without its first four characters when these are "dbt "
WithoutMarker(command) ==
    IF /\ Len(command) >= 4
       /\ command[1] = "d" /\ command[2] = "b" /\ command[3] = "t"
       /\ command[4] = " "
    THEN SubSeq(command, 5, Len(command))
    ELSE command

\* The bytes the adapter reported for the outcomes at the positions of
\* where, an outcome without a report adding nothing
RECURSIVE BytesOver(_)
BytesOver(where) ==
    IF where = {} THEN 0
    ELSE LET i == CHOOSE x \in where : TRUE
             reported == ResultSet[i].adapter_response
         IN  (IF "bytes_processed" \in DOMAIN reported
              THEN reported["bytes_processed"].v ELSE 0)
                + BytesOver(where \ {i})

C14_CommandWithoutMarker ==
    pc = "done" =>
        \A j \in 1..Len(results) :
            \E k \in 1..Len(invoked) :
                /\ results[j].command = WithoutMarker(commands[k])
                /\ results[j].run_execution_result = invoked[k].response.result

\* run() returned the wrapper of a command written with the marker
C14_Witness ==
    /\ pc = "done"
    /\ Len(commands) = 1
    /\ Len(results) = 1
    /\ commands[1] = <<"d", "b", "t", " ", "r", "u", "n">>
    /\ results[1].command = <<"r", "u", "n">>

\* C15: run() returns one wrapper for every command whose invocation gave
\* an outcome object, whatever the object holds.
C15_PresentOutcomeIncluded ==
    pc = "done" =>
        Len(results) =
            Cardinality({k \in 1..Len(invoked) : ~IsNone(invoked[k].response.result)})

ViewCountsNodes(status) ==
    Len(view.out) + Cardinality(OutcomesWith(status) \ NodesWith(status))
        = CounterGet(summary(man), status)

=============================================================================
